---- MODULE Spec2Model ----
(***************************************************************************)
(* Model of the unit-test dashboard of the admin area                      *)
(* (frontend/app/admin/tests/page.tsx, component UnitTestsPage) and of the *)
(* order history of the profile page (frontend/app/profile/page.tsx,       *)
(* component ProfilePage), of the admin product page (AdminProductsPage)   *)
(* with the product service it talks to, of the products page with its     *)
(* search box (ProductsPage), of the quantity field of the cart page       *)
(* (CartPage) and of the two shell scripts (seed script, init-db).  The    *)
(* pages and scripts are independent components: no state is shared        *)
(* between them, and each has a specification of its own that moves only   *)
(* its variables.                                                          *)
(*                                                                         *)
(* The order-placement workflow of spec.md sections 2-8 (Inventory Ledger, *)
(* Payment Authorizer, Order Saga Coordinator, Order Store) has no         *)
(* implementation in the source tree: no file defines or calls Reserve,    *)
(* Commit, Release, Authorize, Capture, Void, Save, LoadNonTerminal or     *)
(* StartCheckout, and spec.md section 1 states that it does not describe   *)
(* code that exists.  It is therefore not modelled here.                   *)
(*                                                                         *)
(* JavaScript object sharing is modelled explicitly.  The six objects of   *)
(* the module-level array mockTestResults are shared by every array that   *)
(* is built with [...mockTestResults] or [...testResults]; only            *)
(* results.map(r => ({...r, status: 'running'})) in runAllTests creates    *)
(* fresh objects.  Those fresh objects all carry status 'running', so the  *)
(* per-service button is disabled while they are displayed and no handler  *)
(* ever captures or mutates them.                                          *)
(*                                                                         *)
(* Time is counted in units of 500 ms: the 1000 ms delay of runAllTests is *)
(* two units, the 1500 ms delay of runSingleTest three.                    *)
(***************************************************************************)
EXTENDS Integers, Sequences, FiniteSets, Bags

\* Largest number of runSingleTest executions in flight at once.
MaxInFlight == 2

\* page.tsx:73-80, the six services, in list order.
services ==
    << "api-gateway", "product-service", "user-service",
       "inventory-service", "order-service", "payment-service" >>

Indexes == 1..Len(services)

\* page.tsx:16-71, the totalTests field of the six mock results.
totalTests == << 52, 24, 23, 23, 23, 27 >>

\* page.tsx:102, setTimeout(resolve, 1000), in units of 500 ms.
RunAllDelay == 2

\* page.tsx:119, setTimeout(resolve, 1500), in units of 500 ms.
SingleDelay == 3

\* page.tsx:7, the values of TestResult.status.
Statuses == {"idle", "running", "passed", "failed"}

VARIABLES
    mockTestResults,  \* status field of each of the six shared mock objects
    testResults,      \* which objects the state array holds: "mock" or "copies"
    isRunningAll,     \* page.tsx:84
    overallStats,     \* page.tsx:85-90
    runAll,           \* the runAllTests executions awaiting their timer
    singles,          \* the runSingleTest executions awaiting their timer
    orders,           \* profile/page.tsx:16
    loading,          \* profile/page.tsx:17
    products,         \* part_002:15, the ids of the displayed products
    showForm,         \* part_002:16
    formData,         \* part_002:17-22
    confirmDialog,    \* part_002:42, the product the open confirm() asks about, or 0
    requests,         \* the bag of HTTP requests of the admin page in flight
    serverProducts,   \* the ids of the products the product service stores
    nextId,           \* the id the product service gives to the next product
    searchProducts,   \* cart/page.tsx:97, the products state of ProductsPage
    filteredProducts, \* cart/page.tsx:98
    searchTerm,       \* cart/page.tsx:99
    effectPending,    \* the effect of cart/page.tsx:109-115 is scheduled
    productsRequest,  \* the GET of cart/page.tsx:103: "sent" or "done"
    updateQuantityCall, \* cart/page.tsx:39, the last call of updateQuantity
    seedPc,           \* part_000:1-38, the command the seed script is at
    seedLog,          \* the commands the seed script has run, with their results
    dbScript,         \* the copy of the init-db script that is run
    dbPc,             \* the command the init-db script is at
    dbRuns,           \* the number of runs of the init-db script started
    dbLog,            \* the commands the current run has run, with their results
    databases         \* the databases PostgreSQL holds

dashboardVars == << mockTestResults, testResults, isRunningAll, overallStats,
                    runAll, singles >>

profileVars == << orders, loading >>

adminVars == << products, showForm, formData, confirmDialog, requests,
                serverProducts, nextId >>

shopVars == << searchProducts, filteredProducts, searchTerm, effectPending,
               productsRequest, updateQuantityCall >>

seedVars == << seedPc, seedLog >>

dbVars == << dbScript, dbPc, dbRuns, dbLog, databases >>

vars == << dashboardVars, profileVars, adminVars, shopVars, seedVars, dbVars >>

\* What the dashboard and the profile page leave alone.
offDashboard == << adminVars, shopVars, seedVars, dbVars >>

\* What the admin product page leaves alone.
offAdmin == << dashboardVars, profileVars, shopVars, seedVars, dbVars >>

\* What the products page and the cart page leave alone.
offShop == << dashboardVars, profileVars, adminVars, seedVars, dbVars >>

\* What the seed script leaves alone.
offSeed == << dashboardVars, profileVars, adminVars, shopVars, dbVars >>

\* What the init-db script leaves alone.
offDb == << dashboardVars, profileVars, adminVars, shopVars, seedVars >>

\* page.tsx:197 and 207-208: the status shown for the i-th service.
status(i) ==
    IF testResults = "copies" THEN "running" ELSE mockTestResults[i]

\* page.tsx:113, results.findIndex(r => r.service === serviceName); 0 is -1.
findIndex(serviceName) ==
    IF \E i \in Indexes : services[i] = serviceName
    THEN CHOOSE i \in Indexes :
            /\ services[i] = serviceName
            /\ \A j \in Indexes : services[j] = serviceName => i <= j
    ELSE 0

RECURSIVE SumTo(_, _)
SumTo(f, n) == IF n = 0 THEN 0 ELSE f[n] + SumTo(f, n - 1)

MaxOf(S) == IF S = {} THEN 0 ELSE CHOOSE x \in S : \A y \in S : y <= x

RemoveAt(s, k) == [j \in 1..(Len(s) - 1) |-> IF j < k THEN s[j] ELSE s[j + 1]]

\* page.tsx:183, disabled={isRunningAll} on the Run All Tests button.
RunAllDisabled == isRunningAll

\* page.tsx:212, disabled={result?.status === 'running'} on a Run Tests button.
RunSingleDisabled(i) == status(i) = "running"

\* profile/page.tsx:23-42, the two mock orders.
mockOrders ==
    << [id |-> 1, user_id |-> 1, product_id |-> 1, quantity |-> 2,
        total_price |-> "59.98", status |-> "completed",
        created_at |-> "2024-01-15"],
       [id |-> 2, user_id |-> 1, product_id |-> 2, quantity |-> 1,
        total_price |-> "29.99", status |-> "shipped",
        created_at |-> "2024-01-10"] >>

\* Largest number of HTTP requests of the admin page in flight at once.
MaxRequests == 2

\* Largest id the product service hands out.
MaxProductId == 2

\* The ids of the products the product service stores when the admin page
\* is opened.
InitialProducts == {1}

\* part_002:17-22 and 36, the empty form.
EmptyForm == [name |-> "", description |-> "", price |-> "", image |-> ""]

\* What the user can type into a field of the form (part_002:81-113).
FieldValues ==
    [name |-> {"", "Mug"}, description |-> {"", "A mug"},
     image |-> {"", "https://example.com/mug.jpg"}]

\* part_002:76-113, the fields the form has an input for.
FormFields == {"name", "description", "image"}

\* An HTTP request of the admin page, on its way to the product service
\* (stage "sent") or answered and on its way back (stage "response").
Request(kind, id, body) ==
    [kind |-> kind, stage |-> "sent", ok |-> FALSE, id |-> id,
     body |-> body, data |-> {}]

\* part_002:28-30, the request fetchProducts sends.
fetchProducts == Request("GET", 0, EmptyForm)

\* The number of requests in flight that satisfy P.
Count(P(_)) ==
    LET S == {r \in BagToSet(requests) : P(r)}
    IN  BagCardinality([r \in S |-> requests[r]])

\* The requests in flight with one more, r, and with one r less.
Send(r) == requests (+) SetToBag({r})
Drop(r) == requests (-) SetToBag({r})

\* Longest text the user puts into the search box.
MaxTermLen == 2

\* Longest text the user puts into a quantity field.
MaxTextLen == 3

\* The letters of the product texts and of the search terms.
Letters == {"a", "A", "b", "B"}

\* String.prototype.toLowerCase on one letter.
lowerCaseOf == [c \in Letters |-> IF c = "A" THEN "a" ELSE IF c = "B" THEN "b" ELSE c]

\* cart/page.tsx:111-112, String.prototype.toLowerCase.
toLowerCase(s) == [j \in 1..Len(s) |-> lowerCaseOf[s[j]]]

\* cart/page.tsx:111-112, String.prototype.includes: t occurs in s.
includes(s, t) ==
    \E off \in 0..(Len(s) - Len(t)) : SubSeq(s, off + 1, off + Len(t)) = t

\* The filter callback comparing the search term as typed.
filterCallback_TermAsTyped(product, term) ==
    \/ includes(toLowerCase(product.name), term)
    \/ includes(toLowerCase(product.description), term)

\* cart/page.tsx:110-113, the callback of products.filter.
filterCallback(product, term) ==
    \/ includes(toLowerCase(product.name), toLowerCase(term))
    \/ includes(toLowerCase(product.description), toLowerCase(term))

\* cart/page.tsx:110-113, Array.prototype.filter with that callback.
filter(list, term) == SelectSeq(list, LAMBDA product : filterCallback(product, term))

\* The product lists the product service may answer with.
Catalogs ==
    { << [id |-> 1, name |-> <<"A", "b">>, description |-> <<"b", "B">>],
         [id |-> 2, name |-> <<"b">>, description |-> <<"a", "A">>],
         [id |-> 3, name |-> <<"B", "a">>, description |-> << >>] >>,
      << [id |-> 2, name |-> <<"a", "B">>, description |-> <<"A">>],
         [id |-> 1, name |-> <<"A", "A">>, description |-> <<"b">>] >> }

\* The texts of length n over the alphabet A.
RECURSIVE TextsOfLen(_, _)
TextsOfLen(A, n) ==
    IF n = 0 THEN { << >> }
    ELSE {Append(t, c) : t \in TextsOfLen(A, n - 1), c \in A}

TextsUpTo(A, n) == UNION {TextsOfLen(A, k) : k \in 0..n}

\* The characters of a quantity text.
Digits == {"0", "1", "2"}
NumberChars == Digits \cup {"-", "."}

digitValue == [c \in Digits |-> IF c = "0" THEN 0 ELSE IF c = "1" THEN 1 ELSE 2]

\* cart/page.tsx:36, the value of an <input type="number"> is the empty string
\* or a valid number: an optional minus sign, digits, and an optional
\* fraction.
IsNumberText(t) ==
    \/ t = << >>
    \/ \E sign \in {<< >>, <<"-">>} : \E whole, frac \in TextsUpTo(Digits, MaxTextLen) :
          /\ whole # << >> \/ frac # << >>
          /\ \/ t = sign \o whole /\ frac = << >>
             \/ t = sign \o whole \o <<".">> \o frac /\ frac # << >>

NumberTexts == {t \in TextsUpTo(NumberChars, MaxTextLen) : IsNumberText(t)}

\* The value of a digit string, most significant digit first.
RECURSIVE valueOf(_)
valueOf(t) ==
    IF t = << >> THEN 0
    ELSE 10 * valueOf(SubSeq(t, 1, Len(t) - 1)) + digitValue[t[Len(t)]]

\* The longest prefix of t that consists of digits.
RECURSIVE digitPrefix(_)
digitPrefix(t) ==
    IF t = << >> \/ t[1] \notin Digits THEN << >>
    ELSE <<t[1]>> \o digitPrefix(Tail(t))

NaN == [nan |-> TRUE, value |-> 0]

\* cart/page.tsx:39, parseInt(string): an optional sign, then the digits up
\* to the first other character; NaN when there is no digit.
parseInt(t) ==
    LET negative == t # << >> /\ t[1] = "-"
        rest == IF negative THEN Tail(t) ELSE t
        digits == digitPrefix(rest)
    IN  IF digits = << >> THEN NaN
        ELSE [nan |-> FALSE,
              value |-> IF negative THEN 0 - valueOf(digits) ELSE valueOf(digits)]

\* cart/page.tsx:28, the ids of the items in the cart.
CartItems == {1, 2}

NoCall == [id |-> 0, text |-> << >>, quantity |-> NaN]

\* Largest number of failed probes in one run of the seed script.
MaxProbeFailures == 3

\* Largest number of failed connections in one run of the init-db script.
MaxConnectFailures == 2

\* Largest number of runs of the init-db script.
MaxDbRuns == 2

\* part_000:7, 13 and 19 (probes) and 28, 32 and 36 (seed commands): the
\* services in the order of the script.
SeedServices == << "product", "user", "inventory" >>

\* init-db.sh:13-17 and part_000:51-55: the databases in the order of the
\* script.
DbNames == << "product_db", "order_db", "user_db", "payment_db", "inventory_db" >>

\* The two copies of the init-db script: init-db.sh:13-17 writes CREATE
\* DATABASE IF NOT EXISTS, part_000:51-55 writes CREATE DATABASE.
DbScripts == {"init-db.sh", "part_000"}

At(at, n) == [at |-> at, n |-> n]

Ran(cmd, n, ok) == [cmd |-> cmd, n |-> n, ok |-> ok]

\* part_000:7-10 (until curl ...) and init-db.sh:5-8 (until psql ...): the
\* number of times the command of an until loop has failed in a run.
failures(log, cmd) ==
    Cardinality({p \in 1..Len(log) : log[p].cmd = cmd /\ ~log[p].ok})

\* psql -c "CREATE DATABASE [IF NOT EXISTS] <db>;" (init-db.sh:13-17,
\* part_000:51-55) against PostgreSQL: CREATE DATABASE has no IF NOT EXISTS
\* clause, so that statement is a syntax error; the plain statement fails
\* when the database exists.
psqlCreate(script, db, existing) ==
    IF script = "init-db.sh" THEN FALSE ELSE db \notin existing

\* page.tsx:16-71 and 83-90, profile/page.tsx:16-17, part_002:15-26,
\* cart/page.tsx:97-115: the state after the first render of each page;
\* part_000:1-6 and init-db.sh:1-5: the scripts before their first command.
Init ==
    /\ mockTestResults = [i \in Indexes |-> "passed"]
    /\ testResults = "mock"
    /\ isRunningAll = FALSE
    /\ overallStats = [total |-> 172, passed |-> 172, failed |-> 0, running |-> 0]
    /\ runAll = << >>
    /\ singles = << >>
    /\ orders = << >>
    /\ loading = TRUE
    /\ products = {}
    /\ showForm = FALSE
    /\ formData = EmptyForm
    /\ confirmDialog = 0
    /\ requests = SetToBag({fetchProducts})
    /\ serverProducts = InitialProducts
    /\ nextId = MaxOf(InitialProducts) + 1
    /\ searchProducts = << >>
    /\ filteredProducts = << >>
    /\ searchTerm = << >>
    /\ effectPending = FALSE
    /\ productsRequest = "sent"
    /\ updateQuantityCall = NoCall
    /\ seedPc = At("curl", 1)
    /\ seedLog = << >>
    /\ dbScript = "init-db.sh"
    /\ dbPc = At("idle", 0)
    /\ dbRuns = 0
    /\ dbLog = << >>
    /\ databases = {}

\* runAllTests with the button never disabled.
runAllTests_NotDisabled ==
    /\ isRunningAll' = TRUE
    /\ overallStats' = [total |-> 0, passed |-> 0, failed |-> 0,
                        running |-> Len(services)]
    /\ testResults' = "copies"
    /\ runAll' = Append(runAll, [i |-> 1, rem |-> RunAllDelay])
    /\ UNCHANGED << mockTestResults, singles, profileVars, offDashboard >>

\* page.tsx:92-102: click on Run All Tests (disabled while isRunningAll),
\* up to the first await.
runAllTests ==
    /\ ~RunAllDisabled
    /\ isRunningAll' = TRUE
    /\ overallStats' = [total |-> 0, passed |-> 0, failed |-> 0,
                        running |-> Len(services)]
    /\ testResults' = "copies"
    /\ runAll' = Append(runAll, [i |-> 1, rem |-> RunAllDelay])
    /\ UNCHANGED << mockTestResults, singles, profileVars, offDashboard >>

\* runAllTimer that leaves the loop without the two final state updates.
runAllTimer_NoFinalUpdate(k) ==
    /\ runAll[k].rem = 0
    /\ mockTestResults' = [mockTestResults EXCEPT ![runAll[k].i] = "passed"]
    /\ testResults' = "mock"
    /\ IF runAll[k].i < Len(services)
       THEN runAll' = [runAll EXCEPT ![k] = [i |-> @.i + 1, rem |-> RunAllDelay]]
       ELSE runAll' = RemoveAt(runAll, k)
    /\ UNCHANGED << isRunningAll, overallStats, singles, profileVars, offDashboard >>

\* page.tsx:102-108: the timer of the i-th iteration of one runAllTests
\* execution fires; the loop body runs and either awaits again or leaves the
\* loop and finishes.
runAllTimer(k) ==
    /\ runAll[k].rem = 0
    /\ mockTestResults' = [mockTestResults EXCEPT ![runAll[k].i] = "passed"]
    /\ testResults' = "mock"
    /\ IF runAll[k].i < Len(services)
       THEN /\ runAll' = [runAll EXCEPT ![k] = [i |-> @.i + 1, rem |-> RunAllDelay]]
            /\ UNCHANGED << isRunningAll, overallStats >>
       ELSE /\ runAll' = RemoveAt(runAll, k)
            /\ isRunningAll' = FALSE
            /\ overallStats' = [total |-> 172, passed |-> 172,
                                failed |-> 0, running |-> 0]
    /\ UNCHANGED << singles, profileVars, offDashboard >>

\* page.tsx:111-119 and 210-212: click on Run Tests of one service (disabled
\* while its displayed status is 'running'), up to the await.
runSingleTest(serviceName) ==
    LET index == findIndex(serviceName) IN
    /\ index # 0
    /\ ~RunSingleDisabled(index)
    /\ Len(singles) < MaxInFlight
    /\ mockTestResults' = [mockTestResults EXCEPT ![index] = "running"]
    /\ testResults' = "mock"
    /\ singles' = Append(singles, [index |-> index, rem |-> SingleDelay])
    /\ UNCHANGED << isRunningAll, overallStats, runAll, profileVars, offDashboard >>

\* runSingleTimer that resumes without writing 'passed'.
runSingleTimer_NoPassed(k) ==
    /\ singles[k].rem = 0
    /\ testResults' = "mock"
    /\ singles' = RemoveAt(singles, k)
    /\ UNCHANGED << mockTestResults, isRunningAll, overallStats, runAll, profileVars, offDashboard >>

\* page.tsx:119-121: the timer of one runSingleTest fires.
runSingleTimer(k) ==
    /\ singles[k].rem = 0
    /\ mockTestResults' = [mockTestResults EXCEPT ![singles[k].index] = "passed"]
    /\ testResults' = "mock"
    /\ singles' = RemoveAt(singles, k)
    /\ UNCHANGED << isRunningAll, overallStats, runAll, profileVars, offDashboard >>

\* 500 ms pass on the dashboard: possible while a timer is pending and none
\* is due.
Tick ==
    /\ runAll # << >> \/ singles # << >>
    /\ \A k \in 1..Len(runAll) : runAll[k].rem > 0
    /\ \A k \in 1..Len(singles) : singles[k].rem > 0
    /\ runAll' = [k \in 1..Len(runAll) |-> [runAll[k] EXCEPT !.rem = @ - 1]]
    /\ singles' = [k \in 1..Len(singles) |-> [singles[k] EXCEPT !.rem = @ - 1]]
    /\ UNCHANGED << mockTestResults, testResults, isRunningAll, overallStats,
                    profileVars, offDashboard >>

\* The profile page's timer callback with another status in the mock data.
ProfilePageTimeout_OtherStatus ==
    /\ loading
    /\ orders' = [mockOrders EXCEPT ![2].status = "processing"]
    /\ loading' = FALSE
    /\ UNCHANGED << dashboardVars, offDashboard >>

\* profile/page.tsx:19-45: the effect's timer fires, once, one second after
\* the page was mounted.
ProfilePageTimeout ==
    /\ loading
    /\ orders' = mockOrders
    /\ loading' = FALSE
    /\ UNCHANGED << dashboardVars, offDashboard >>

Next ==
    \/ runAllTests
    \/ \E k \in 1..Len(runAll) : runAllTimer(k)
    \/ \E i \in Indexes : runSingleTest(services[i])
    \/ \E k \in 1..Len(singles) : runSingleTimer(k)
    \/ Tick
    \/ ProfilePageTimeout

Spec == Init /\ [][Next]_vars

\* The dashboard with time passing and every due timer firing: setTimeout
\* callbacks are run by the event loop once their delay has elapsed.
DashboardNext ==
    \/ runAllTests
    \/ \E k \in 1..Len(runAll) : runAllTimer(k)
    \/ \E i \in Indexes : runSingleTest(services[i])
    \/ \E k \in 1..Len(singles) : runSingleTimer(k)
    \/ Tick

FairSpec ==
    /\ Init
    /\ [][DashboardNext]_vars
    /\ WF_vars(Tick)
    /\ WF_vars(\E k \in 1..Len(runAll) : runAllTimer(k))
    /\ WF_vars(\E k \in 1..Len(singles) : runSingleTimer(k))

TypeOK ==
    /\ mockTestResults \in [Indexes -> Statuses]
    /\ testResults \in {"mock", "copies"}
    /\ isRunningAll \in BOOLEAN
    /\ overallStats.total \in {0, SumTo(totalTests, Len(totalTests))}
    /\ \A k \in 1..Len(runAll) : runAll[k].i \in Indexes /\ runAll[k].rem \in 0..RunAllDelay
    /\ Len(singles) <= MaxInFlight
    /\ loading \in BOOLEAN
    /\ Len(orders) \in {0, Len(mockOrders)}

(***************************************************************************)
(* The admin product page (part_002) and the product service               *)
(***************************************************************************)

\* part_002:65-70: click on Add Product / Cancel.
toggleForm ==
    /\ confirmDialog = 0
    /\ showForm' = ~showForm
    /\ UNCHANGED << products, formData, confirmDialog, requests,
                    serverProducts, nextId, offAdmin >>

\* The image input writing the price field.
formChange_WritesPrice(field, value) ==
    /\ confirmDialog = 0
    /\ showForm
    /\ formData' = IF field = "image"
                   THEN [formData EXCEPT !.price = value]
                   ELSE [formData EXCEPT ![field] = value]
    /\ UNCHANGED << products, showForm, confirmDialog, requests,
                    serverProducts, nextId, offAdmin >>

\* part_002:84, 96 and 110: the user edits one field of the form, which is
\* rendered only while showForm.
formChange(field, value) ==
    /\ confirmDialog = 0
    /\ showForm
    /\ formData' = [formData EXCEPT ![field] = value]
    /\ UNCHANGED << products, showForm, confirmDialog, requests,
                    serverProducts, nextId, offAdmin >>

\* handleSubmit clearing and hiding the form without waiting for the POST.
handleSubmit_ClearsAtOnce ==
    /\ confirmDialog = 0
    /\ showForm
    /\ formData.name # "" /\ formData.description # ""
    /\ BagCardinality(requests) < MaxRequests
    /\ requests' = Send(Request("POST", 0, formData))
    /\ formData' = EmptyForm
    /\ showForm' = FALSE
    /\ UNCHANGED << products, confirmDialog, serverProducts, nextId, offAdmin >>

\* part_002:32-34: the form is submitted (the browser refuses while a
\* required field, part_002:86 and 99, is empty), up to the POST being sent.
handleSubmit ==
    /\ confirmDialog = 0
    /\ showForm
    /\ formData.name # "" /\ formData.description # ""
    /\ BagCardinality(requests) < MaxRequests
    /\ requests' = Send(Request("POST", 0, formData))
    /\ UNCHANGED << products, showForm, formData, confirmDialog,
                    serverProducts, nextId, offAdmin >>

\* part_002:41-42 and 163-168: click on Delete in the row of a displayed
\* product; confirm() opens its dialog and blocks the page.
handleDelete(id) ==
    /\ confirmDialog = 0
    /\ id \in products
    /\ confirmDialog' = id
    /\ UNCHANGED << products, showForm, formData, requests,
                    serverProducts, nextId, offAdmin >>

\* The confirm dialog sending the DELETE whatever the user answers.
confirmAnswer_IgnoresAnswer(answer) ==
    /\ confirmDialog # 0
    /\ BagCardinality(requests) < MaxRequests
    /\ requests' = Send(Request("DELETE", confirmDialog, EmptyForm))
    /\ confirmDialog' = 0
    /\ UNCHANGED << products, showForm, formData, serverProducts, nextId,
                    offAdmin >>

\* part_002:42-43: the user answers the dialog; on OK the DELETE is sent.
confirmAnswer(answer) ==
    /\ confirmDialog # 0
    /\ answer => BagCardinality(requests) < MaxRequests
    /\ requests' = IF answer
                   THEN Send(Request("DELETE", confirmDialog, EmptyForm))
                   ELSE requests
    /\ confirmDialog' = 0
    /\ UNCHANGED << products, showForm, formData, serverProducts, nextId,
                    offAdmin >>

\* The product service answers the request r: a list request with the
\* products it stores now, a create with a new product or a refusal, a
\* delete with the removal of the product or a refusal.
serve(r, ok) ==
    /\ r.stage = "sent"
    /\ r.kind = "GET" => ok
    /\ (r.kind = "POST" /\ ok) => nextId <= MaxProductId
    /\ (r.kind = "DELETE" /\ ok) => r.id \in serverProducts
    /\ serverProducts' =
          IF ~ok THEN serverProducts
          ELSE IF r.kind = "POST" THEN serverProducts \cup {nextId}
          ELSE IF r.kind = "DELETE" THEN serverProducts \ {r.id}
          ELSE serverProducts
    /\ nextId' = IF ok /\ r.kind = "POST" THEN nextId + 1 ELSE nextId
    /\ requests' = Drop(r) (+)
                   SetToBag({[r EXCEPT !.stage = "response", !.ok = ok,
                                       !.data = IF r.kind = "GET"
                                                THEN serverProducts ELSE {}]})
    /\ UNCHANGED << products, showForm, formData, confirmDialog, offAdmin >>

\* part_002:29, 34-38 and 43-45: the response r arrives and its promise
\* settles; a failed request runs no callback.
receive(r) ==
    /\ confirmDialog = 0
    /\ r.stage = "response"
    /\ products' = IF r.kind = "GET" /\ r.ok THEN r.data ELSE products
    /\ requests' = IF r.kind \in {"POST", "DELETE"} /\ r.ok
                   THEN Drop(r) (+) SetToBag({fetchProducts})
                   ELSE Drop(r)
    /\ formData' = IF r.kind = "POST" /\ r.ok THEN EmptyForm ELSE formData
    /\ showForm' = IF r.kind = "POST" /\ r.ok THEN FALSE ELSE showForm
    /\ UNCHANGED << confirmDialog, serverProducts, nextId, offAdmin >>

AdminNext ==
    \/ toggleForm
    \/ \E field \in FormFields : \E value \in FieldValues[field] :
          formChange(field, value)
    \/ handleSubmit
    \/ \E id \in products : handleDelete(id)
    \/ \E answer \in BOOLEAN : confirmAnswer(answer)
    \/ \E r \in BagToSet(requests) : \E ok \in BOOLEAN : serve(r, ok)
    \/ \E r \in BagToSet(requests) : receive(r)

AdminSpec == Init /\ [][AdminNext]_vars

AdminTypeOK ==
    /\ products \subseteq 1..MaxProductId
    /\ serverProducts \subseteq 1..MaxProductId
    /\ nextId \in 1..(MaxProductId + 1)
    /\ showForm \in BOOLEAN
    /\ confirmDialog \in 0..MaxProductId
    /\ IsABag(requests)
    /\ BagCardinality(requests) <= MaxRequests
    /\ \A r \in BagToSet(requests) : requests[r] >= 1
    /\ \A f \in FormFields : formData[f] \in FieldValues[f]

(***************************************************************************)
(* The products page and the cart page (cart/page.tsx)                     *)
(***************************************************************************)

\* cart/page.tsx:102-107: the product list arrives.  Both states are set, and
\* the new products value schedules the filter effect.
receiveProducts(data) ==
    /\ productsRequest = "sent"
    /\ ~effectPending
    /\ productsRequest' = "done"
    /\ searchProducts' = data
    /\ filteredProducts' = data
    /\ effectPending' = TRUE
    /\ UNCHANGED << searchTerm, updateQuantityCall, offShop >>

\* cart/page.tsx:128-133: the user changes the text of the search box; a new
\* searchTerm schedules the filter effect.
setSearchTerm(term) ==
    /\ ~effectPending
    /\ term # searchTerm
    /\ searchTerm' = term
    /\ effectPending' = TRUE
    /\ UNCHANGED << searchProducts, filteredProducts, productsRequest,
                    updateQuantityCall, offShop >>

\* cart/page.tsx:109-115: the filter effect runs; React runs a scheduled
\* effect before it handles the next event.
filterEffect ==
    /\ effectPending
    /\ filteredProducts' = filter(searchProducts, searchTerm)
    /\ effectPending' = FALSE
    /\ UNCHANGED << searchProducts, searchTerm, productsRequest,
                    updateQuantityCall, offShop >>

\* cart/page.tsx:35-41: the user changes the text of the quantity field of a
\* cart item.
onQuantityChange(id, text) ==
    /\ updateQuantityCall' = [id |-> id, text |-> text, quantity |-> parseInt(text)]
    /\ UNCHANGED << searchProducts, filteredProducts, searchTerm, effectPending,
                    productsRequest, offShop >>

ProductsNext ==
    \/ \E data \in Catalogs : receiveProducts(data)
    \/ \E term \in TextsUpTo(Letters, MaxTermLen) : setSearchTerm(term)
    \/ filterEffect

ProductsSpec == Init /\ [][ProductsNext]_vars

CartNext ==
    \E id \in CartItems : \E text \in NumberTexts : onQuantityChange(id, text)

CartSpec == Init /\ [][CartNext]_vars

(***************************************************************************)
(* The seed script (part_000:1-38)                                         *)
(***************************************************************************)

\* part_000:7-10, 13-16 and 19-22: one probe of the until loop of the n-th
\* service; a failed probe prints the waiting message and goes to sleep 5.
curl(ok) ==
    /\ seedPc.at = "curl"
    /\ ~ok => failures(seedLog, "curl") < MaxProbeFailures
    /\ seedLog' = Append(seedLog, Ran("curl", seedPc.n, ok))
    /\ seedPc' = IF ~ok THEN At("sleep", seedPc.n)
                 ELSE IF seedPc.n < Len(SeedServices) THEN At("curl", seedPc.n + 1)
                 ELSE At("seed", 1)
    /\ UNCHANGED offSeed

\* part_000:9, 15 and 21: sleep 5, then the loop probes again.
sleep5 ==
    /\ seedPc.at = "sleep"
    /\ seedLog' = Append(seedLog, Ran("sleep", seedPc.n, TRUE))
    /\ seedPc' = At("curl", seedPc.n)
    /\ UNCHANGED offSeed

\* The seed commands run without set -e.
seed_NoErrexit(ok) ==
    /\ seedPc.at = "seed"
    /\ seedLog' = Append(seedLog, Ran("seed", seedPc.n, ok))
    /\ seedPc' = IF seedPc.n < Len(SeedServices) THEN At("seed", seedPc.n + 1)
                 ELSE At("echo", 0)
    /\ UNCHANGED offSeed

\* part_000:2 and 26-36: the n-th seed command; under set -e a failing
\* command ends the script.
seed(ok) ==
    /\ seedPc.at = "seed"
    /\ seedLog' = Append(seedLog, Ran("seed", seedPc.n, ok))
    /\ seedPc' = IF ~ok THEN At("exited", 1)
                 ELSE IF seedPc.n < Len(SeedServices) THEN At("seed", seedPc.n + 1)
                 ELSE At("echo", 0)
    /\ UNCHANGED offSeed

\* part_000:38: echo "Seeding completed successfully!" and the end of the
\* script.
echoSeeded ==
    /\ seedPc.at = "echo"
    /\ seedLog' = Append(seedLog, Ran("echo", 0, TRUE))
    /\ seedPc' = At("exited", 0)
    /\ UNCHANGED offSeed

SeedNext ==
    \/ \E ok \in BOOLEAN : curl(ok)
    \/ sleep5
    \/ \E ok \in BOOLEAN : seed(ok)
    \/ echoSeeded

SeedSpec == Init /\ [][SeedNext]_vars

(***************************************************************************)
(* The init-db script (init-db.sh and its copy part_000:39-57)             *)
(***************************************************************************)

\* init-db.sh:13-17 (IF NOT EXISTS): the databases the script finds in place
\* when it is run.
provision(S) ==
    /\ dbPc.at = "idle"
    /\ databases' = S
    /\ UNCHANGED << dbScript, dbPc, dbRuns, dbLog, offDb >>

\* init-db.sh:1 and part_000:39: one of the two copies of the script is
\* started.
startRun(script) ==
    /\ dbPc.at \in {"idle", "exited"}
    /\ dbRuns < MaxDbRuns
    /\ dbRuns' = dbRuns + 1
    /\ dbScript' = script
    /\ dbLog' = << >>
    /\ dbPc' = At("connect", 0)
    /\ UNCHANGED << databases, offDb >>

\* init-db.sh:5-10 and part_000:43-48: one connection attempt of the until
\* loop; a failed attempt prints the message and sleeps one second.
connect(ok) ==
    /\ dbPc.at = "connect"
    /\ ~ok => failures(dbLog, "connect") < MaxConnectFailures
    /\ dbLog' = Append(dbLog, Ran("connect", 0, ok))
    /\ dbPc' = IF ok THEN At("create", 1) ELSE dbPc
    /\ UNCHANGED << dbScript, dbRuns, databases, offDb >>

\* init-db.sh:2 and 13-17, part_000:40 and 51-55: the n-th CREATE DATABASE
\* command; under set -e a failing command ends the script.
create ==
    LET db == DbNames[dbPc.n]
        ok == psqlCreate(dbScript, db, databases)
    IN  /\ dbPc.at = "create"
        /\ dbLog' = Append(dbLog, Ran("create", dbPc.n, ok))
        /\ databases' = IF ok THEN databases \cup {db} ELSE databases
        /\ dbPc' = IF ~ok THEN At("exited", 1)
                   ELSE IF dbPc.n < Len(DbNames) THEN At("create", dbPc.n + 1)
                   ELSE At("echo", 0)
        /\ UNCHANGED << dbScript, dbRuns, offDb >>

\* init-db.sh:19 and part_000:57: echo "Databases created successfully" and
\* the end of the script.
echoCreated ==
    /\ dbPc.at = "echo"
    /\ dbLog' = Append(dbLog, Ran("echo", 0, TRUE))
    /\ dbPc' = At("exited", 0)
    /\ UNCHANGED << dbScript, dbRuns, databases, offDb >>

DbNext ==
    \/ \E S \in SUBSET {DbNames[n] : n \in 1..Len(DbNames)} : provision(S)
    \/ \E script \in DbScripts : startRun(script)
    \/ \E ok \in BOOLEAN : connect(ok)
    \/ create
    \/ echoCreated

DbSpec == Init /\ [][DbNext]_vars

(***************************************************************************)
(* Claims                                                                  *)
(***************************************************************************)

\* spec.md section 4.1, the states of the Order Status Machine, written in
\* lower case as the profile page writes its statuses.
OrderStatusMachineStates ==
    { "pending", "reserving", "reservationfailed", "reserved", "authorizing",
      "authorizationfailed", "authorized", "capturing", "capturefailed",
      "completed", "cancelled" }

\* C15 (as stated): every order shown in the profile page's order history has
\* a status that is one of the Order Status Machine states.
C15_StatusIsMachineState ==
    \A k \in 1..Len(orders) : orders[k].status \in OrderStatusMachineStates

\* C15 (amended): every order shown in the profile page's order history has a
\* status that is one of the Order Status Machine states or 'shipped'.
C15_StatusIsMachineStateOrShipped ==
    \A k \in 1..Len(orders) :
        orders[k].status \in OrderStatusMachineStates \cup {"shipped"}

\* The order history is shown with its two orders, one of them shipped.
C15_Witness ==
    /\ ~loading
    /\ Len(orders) = 2
    /\ \E k \in 1..Len(orders) : orders[k].status = "shipped"

\* C16: the step in which runAllTests finishes, when it leaves no
\* runSingleTest in flight, leaves isRunningAll false, every service displayed
\* as 'passed' and overallStats at {172, 172, 0, 0}, 172 being the sum of
\* totalTests over the six results.
C16_RunAllFinishes ==
    [][ (Len(runAll') < Len(runAll) /\ singles' = << >>)
        => /\ isRunningAll' = FALSE
           /\ \A i \in Indexes : status(i)' = "passed"
           /\ overallStats' = [total |-> 172, passed |-> 172,
                               failed |-> 0, running |-> 0]
           /\ overallStats'.total = SumTo(totalTests, Len(totalTests)) ]_vars

\* The last timer of a runAllTests is due and no runSingleTest is in flight:
\* the run finishes in the next step.
C16_Witness ==
    /\ Len(runAll) = 1
    /\ runAll[1].i = Len(services)
    /\ runAll[1].rem = 0
    /\ singles = << >>
    /\ isRunningAll

\* C17 (as stated): while a runAllTests is in progress and no runSingleTest
\* is in flight, after the k-th delay exactly the first k services display
\* 'passed' and the other 6-k display 'running'.
C17_OneAtATime ==
    (Len(runAll) = 1 /\ singles = << >>)
        => \A j \in Indexes :
              status(j) = IF j < runAll[1].i THEN "passed" ELSE "running"

\* C18: at most one runAllTests execution is active, isRunningAll is true
\* exactly while one is, and the Run All Tests button is disabled exactly
\* while isRunningAll is true.
C18_OneRunAll ==
    /\ Len(runAll) <= 1
    /\ isRunningAll <=> (runAll # << >>)
    /\ RunAllDisabled <=> isRunningAll

\* A runAllTests is in progress and waits for its last service.
C18_Witness ==
    /\ Len(runAll) = 1
    /\ runAll[1].i = Len(services)
    /\ isRunningAll
    /\ RunAllDisabled

\* C19 (as stated): for each service at most one runSingleTest is in flight.
C19_OneSinglePerService ==
    \A i \in Indexes :
        Cardinality({k \in 1..Len(singles) : singles[k].index = i}) <= 1

\* C20 (as stated): overallStats.running is the number of services displayed
\* as 'running'.
C20_RunningCount ==
    overallStats.running = Cardinality({i \in Indexes : status(i) = "running"})

\* C21 (as stated): a runSingleTest for service s changes the displayed status
\* of no other service, neither in the step that starts it nor in the step in
\* which its timer fires.  (A name that matches no service finds no index and
\* takes no step at all.)
C21_FrameOfRunSingleTest ==
    [][ /\ \A i \in Indexes :
              runSingleTest(services[i])
                  => \A t \in Indexes \ {i} : status(t)' = status(t)
        /\ \A k \in 1..Len(singles) :
              runSingleTimer(k)
                  => \A t \in Indexes \ {singles[k].index} :
                        status(t)' = status(t) ]_vars

\* C22: with every timer firing, a service that displays 'running' eventually
\* displays 'passed'; and when no run is in flight no service displays
\* 'running'.
C22_RunningLeadsToPassed ==
    /\ \A i \in Indexes : (status(i) = "running") ~> (status(i) = "passed")
    /\ []((runAll = << >> /\ singles = << >>)
            => \A i \in Indexes : status(i) # "running")

\* A runAllTests and a runSingleTest are both in flight and the service of
\* the runSingleTest displays 'running'.
C22_Witness ==
    /\ runAll # << >>
    /\ singles # << >>
    /\ testResults = "mock"
    /\ status(singles[1].index) = "running"

IsGet(r) == r.kind = "GET"
IsPost(r) == r.kind = "POST"
IsOkPost(r) == r.kind = "POST" /\ r.stage = "response" /\ r.ok
IsFailedPost(r) == r.kind = "POST" /\ r.stage = "response" /\ ~r.ok
IsOkDelete(r) == r.kind = "DELETE" /\ r.stage = "response" /\ r.ok
IsFailedDelete(r) == r.kind = "DELETE" /\ r.stage = "response" /\ ~r.ok

\* C23 (as stated): once no HTTP request of the admin page is outstanding,
\* the displayed product list is the product set of the server.
C23_ListMatchesServer ==
    requests = EmptyBag => products = serverProducts

\* C24: the step that sends the create POST, and the step in which a failed
\* POST settles, leave formData, showForm and the displayed products
\* unchanged and send no list request; the step in which a successful POST
\* settles sends the list request, clears the form and hides it.
C24_OnlyAfterPostSucceeded ==
    [][ /\ Count(IsPost)' > Count(IsPost)
            => /\ UNCHANGED << formData, showForm, products >>
               /\ Count(IsGet)' = Count(IsGet)
        /\ Count(IsFailedPost)' < Count(IsFailedPost)
            => /\ UNCHANGED << formData, showForm, products >>
               /\ Count(IsGet)' = Count(IsGet)
        /\ Count(IsOkPost)' < Count(IsOkPost)
            => /\ Count(IsGet)' = Count(IsGet) + 1
               /\ formData' = EmptyForm
               /\ showForm' = FALSE ]_vars

\* The answer to a failed POST is on its way while the form is shown and
\* filled in.
C24_Witness ==
    /\ Count(IsFailedPost) > 0
    /\ showForm
    /\ formData.name # "" /\ formData.description # ""

\* C25: a DELETE for a product is sent only in the step in which the dialog
\* about that product is closed; closing it with Cancel sends nothing and
\* leaves the displayed list unchanged; a failed DELETE sends no list
\* request, and a list request is sent only when a successful DELETE (or a
\* successful POST) settles.
C25_DeleteOnlyAfterConfirm ==
    [][ /\ \A id \in 1..MaxProductId :
              Count(LAMBDA r : r.kind = "DELETE" /\ r.id = id)'
                  > Count(LAMBDA r : r.kind = "DELETE" /\ r.id = id)
              => confirmDialog = id /\ confirmDialog' = 0
        /\ confirmAnswer(FALSE) => UNCHANGED << requests, products >>
        /\ Count(IsFailedDelete)' < Count(IsFailedDelete)
            => Count(IsGet)' = Count(IsGet) /\ UNCHANGED products
        /\ Count(IsGet)' > Count(IsGet)
            => \/ Count(IsOkDelete)' < Count(IsOkDelete)
               \/ Count(IsOkPost)' < Count(IsOkPost) ]_vars

\* A DELETE for a displayed product has been sent.
C25_Witness ==
    \E r \in BagToSet(requests) :
        r.kind = "DELETE" /\ r.stage = "sent" /\ r.id \in products

\* C26: formData.price is always the empty string and every create request
\* carries price ''.
C26_PriceEmpty ==
    /\ formData.price = ""
    /\ \A r \in BagToSet(requests) : r.kind = "POST" => r.body.price = ""

\* A create request with a filled-in form is in flight.
C26_Witness ==
    \E r \in BagToSet(requests) :
        r.kind = "POST" /\ r.body.name # "" /\ r.body.image # ""

\* Two letters are the same up to case.
SameLetter(c, d) == c = d \/ {c, d} \in {{"a", "A"}, {"b", "B"}}

\* t occurs in s, case ignored.
ContainsIgnoringCase(s, t) ==
    \E off \in 0..(Len(s) - Len(t)) :
        \A j \in 1..Len(t) : SameLetter(s[off + j], t[j])

\* The positions of the products whose name or description contains
\* searchTerm, case ignored.
Matching ==
    {i \in 1..Len(searchProducts) :
        \/ ContainsIgnoringCase(searchProducts[i].name, searchTerm)
        \/ ContainsIgnoringCase(searchProducts[i].description, searchTerm)}

\* C27: once the effects have run, filteredProducts holds exactly the
\* products whose name or description contains searchTerm (case ignored), in
\* the order of products, and all of products when searchTerm is empty.
C27_FilteredIsMatchingSublist ==
    ~effectPending =>
        /\ Len(filteredProducts) = Cardinality(Matching)
        /\ \A j \in 1..Len(filteredProducts) :
              \E i \in Matching :
                  /\ Cardinality({x \in Matching : x < i}) = j - 1
                  /\ filteredProducts[j] = searchProducts[i]
        /\ searchTerm = << >> => filteredProducts = searchProducts

\* The list has arrived, the search term holds a capital letter, the effects
\* have run and some but not all products are shown.
C27_Witness ==
    /\ productsRequest = "done"
    /\ ~effectPending
    /\ \E j \in 1..Len(searchTerm) : searchTerm[j] \in {"A", "B"}
    /\ filteredProducts # << >>
    /\ Len(filteredProducts) < Len(searchProducts)

\* C28 (as stated): every updateQuantity call of the cart page carries an
\* integer of at least 1.
C28_QuantityAtLeastOne ==
    updateQuantityCall # NoCall =>
        /\ ~updateQuantityCall.quantity.nan
        /\ updateQuantityCall.quantity.value >= 1

IsOkProbe(e) == e.cmd = "curl" /\ e.ok

\* The number of seed commands in a log, and of those that succeeded.
SeedsIn(log) == Cardinality({p \in 1..Len(log) : log[p].cmd = "seed"})

OkSeedsIn(log) ==
    Cardinality({p \in 1..Len(log) : log[p].cmd = "seed" /\ log[p].ok})

\* C29: a seed command runs only after one successful probe of each of the
\* three services, got in the order product, user, inventory; a failed probe
\* is followed by sleep 5 and a new probe of the same service; the seed
\* commands run in the order products, users, inventory, and a failing one is
\* the last command of the script; the success message is printed only after
\* three successful seed commands.
C29_SeedScript ==
    /\ \A p \in 1..Len(seedLog) :
          LET e == seedLog[p]
              before == SubSeq(seedLog, 1, p - 1)
          IN  /\ e.cmd = "seed" =>
                    /\ SelectSeq(before, IsOkProbe)
                          = [n \in 1..Len(SeedServices) |-> Ran("curl", n, TRUE)]
                    /\ e.n = 1 + SeedsIn(before)
                    /\ ~e.ok => p = Len(seedLog) /\ seedPc = At("exited", 1)
              /\ (e.cmd = "curl" /\ ~e.ok /\ p < Len(seedLog)) =>
                    seedLog[p + 1] = Ran("sleep", e.n, TRUE)
              /\ (e.cmd = "sleep" /\ p < Len(seedLog)) =>
                    seedLog[p + 1].cmd = "curl" /\ seedLog[p + 1].n = e.n
              /\ e.cmd = "curl" =>
                    \A q \in 1..(p - 1) :
                        seedLog[q].cmd = "curl" => seedLog[q].n <= e.n
              /\ e.cmd = "echo" =>
                    OkSeedsIn(before) = Len(SeedServices)

\* The script has printed the success message after a probe had failed.
C29_Witness ==
    /\ seedPc = At("exited", 0)
    /\ \E p \in 1..Len(seedLog) : seedLog[p].cmd = "curl" /\ ~seedLog[p].ok
    /\ seedLog[Len(seedLog)].cmd = "echo"

AllDatabases == {DbNames[n] : n \in 1..Len(DbNames)}

\* C30 (as stated): no CREATE DATABASE is issued before a connection has
\* succeeded; the success message is printed only when all five databases
\* exist; and when the script is run again, the second run ends with the
\* success message too.
C30_InitDb ==
    /\ \A p \in 1..Len(dbLog) :
          dbLog[p].cmd = "create" =>
              \E q \in 1..(p - 1) : dbLog[q] = Ran("connect", 0, TRUE)
    /\ (\E p \in 1..Len(dbLog) : dbLog[p].cmd = "echo") => databases = AllDatabases
    /\ (dbPc.at = "exited" /\ dbRuns >= 2) =>
          dbPc.n = 0 /\ dbLog[Len(dbLog)].cmd = "echo"
====
